---------------------------- MODULE Spec2Model ----------------------------
(***************************************************************************)
(* Model of the kupfer plugins media_players.py, hamster.py and hotot.py.  *)
(*                                                                         *)
(* Bus names are modelled as the tuple of their dot-separated components,  *)
(* so that 'org.mpris.MediaPlayer2.vlc' is <<"org","mpris",                *)
(* "MediaPlayer2","vlc">>; a text is the tuple of its characters.          *)
(* The session bus is the environment: names appear and vanish at any      *)
(* moment, also between two remote calls of one handler.  The plugins run  *)
(* on the host's single main-loop thread, one handler at a time.           *)
(***************************************************************************)
EXTENDS Integers, Sequences, FiniteSets, TLC

VARIABLES
    bus,             \* bus names that currently have an owner
    changes,         \* number of environment events so far (bounded)
    pc,              \* position of the media-player plugin's thread
    inInit,          \* TRUE while MediaPlayersRegistry.__init__ is running
    subscribed,      \* NameOwnerChanged handler connected
    pending,         \* NameOwnerChanged signals queued for the main loop
    active_players,  \* MediaPlayersRegistry.active_players: name -> player
    todo,            \* names the loop of the running rescan has still to visit
    listed,          \* names the ListNames of the last rescan returned
    before,          \* active_players as it was when the last rescan started
    completed,       \* TRUE iff the last rescan ran to completion
    raised,          \* exception that left the handler that ran last ("none" if none)
    actions,         \* the list last returned by get_actions_for_leaf
    offered,         \* Hamster / Hotot actions whose valid_for_item last said True
    last             \* the handler that ran in the step just taken: its inputs and
                     \* remote calls (NoOp once the bus has moved on)

vars == <<bus, changes, pc, inInit, subscribed, pending, active_players, todo,
          listed, before, completed, raised, actions, offered, last>>

---------------------------------------------------------------------------
(* Bounds of the model *)

\* environment events (names appearing / vanishing, stray signals) per run
MaxChanges == 1

\* length of the texts handed to SendUpdate
MaxLen == 3

---------------------------------------------------------------------------
(* Bus names and the properties of the applications behind them *)

VLC == <<"org", "mpris", "MediaPlayer2", "vlc">>
VLC2 == <<"org", "mpris", "MediaPlayer2", "vlc", "instance7">>
RHYTHMBOX == <<"org", "mpris", "MediaPlayer2", "rhythmbox">>
MPD == <<"org", "mpris", "MediaPlayer2", "mpd">>
HAMSTER == <<"org", "gnome", "Hamster">>
HOTOT == <<"org", "hotot", "service">>

MprisPrefix == <<"org", "mpris", "MediaPlayer2">>

\* name.startswith('org.mpris.MediaPlayer2.'): the three components and the
\* dot that follows them, i.e. at least one more component
StartsWithMpris(name) ==
    /\ Len(name) > Len(MprisPrefix)
    /\ SubSeq(name, 1, Len(MprisPrefix)) = MprisPrefix

PlayerNames == {VLC, VLC2, RHYTHMBOX, MPD}
MediaBusNames == PlayerNames \cup {HAMSTER}

NoEntry == "<no DesktopEntry>"

\* The DesktopEntry property each player serves; it is optional in MPRIS2
\* and two instances of one application serve the same value.
DesktopEntry(name) ==
    CASE name = VLC -> "vlc"
      [] name = VLC2 -> "vlc"
      [] name = RHYTHMBOX -> "rhythmbox"
      [] OTHER -> NoEntry

---------------------------------------------------------------------------
(* media_players.py: MediaPlayer *)

None == "None"

\* MediaPlayer(dbus_obj): a proxy bound to the bus name it was created for
MediaPlayer(name) == [dbus_obj |-> name]

\* The Properties.Get behind MediaPlayer.name answers iff the player is on
\* the bus and serves a DesktopEntry; otherwise it raises a DBusException.
NameReadable(player) ==
    /\ player.dbus_obj \in bus
    /\ DesktopEntry(player.dbus_obj) # NoEntry

PlayerName(player) == DesktopEntry(player.dbus_obj)

PropertiesGet(player) ==
    [to |-> player.dbus_obj, iface |-> "org.freedesktop.DBus.Properties",
     method |-> "Get", args |-> <<"org.mpris.MediaPlayer2", "DesktopEntry">>]

---------------------------------------------------------------------------
(* media_players.py: MediaPlayersRegistry *)

EmptyDict == [k \in {} |-> MediaPlayer(VLC)]

\* d[k] = v of a Python dict
Put(d, k, v) == [x \in (DOMAIN d) \cup {k} |-> IF x = k THEN v ELSE d[x]]

Range(s) == {s[i] : i \in DOMAIN s}

\* every order in which ListNames may return a set of names
Orders(S) ==
    {s \in [1..Cardinality(S) -> S] : \A i, j \in DOMAIN s : s[i] = s[j] => i = j}

\* an exception leaves reindex(); raised in the constructor it ends the
\* import of the plugin, raised in a signal handler it is dropped by the
\* dispatcher and the main loop goes on
Propagate(init, exc) ==
    /\ raised' = exc
    /\ completed' = FALSE
    /\ pc' = IF init THEN "dead" ELSE "idle"

\* a rescan that fills the table it finds instead of a new one
KeepPlayers == active_players

\* line 67
ClearPlayers == EmptyDict

\* lines 71-72: the names of the list the loop body runs for
Discovered(names) == {n \in names : StartsWithMpris(n)}

\* lines 67-72: the table is replaced by an empty one, the bus is asked for
\* its names and the loop starts on those that are MPRIS2 players
ReindexBegin(init) ==
    /\ before' = active_players
    /\ active_players' = ClearPlayers
    /\ \/ /\ Propagate(init, "DBusException")
          /\ UNCHANGED <<todo, listed>>
       \/ /\ listed' = bus
          /\ \E order \in Orders(Discovered(bus)) : todo' = order
          /\ pc' = "loop"
          /\ raised' = "none"
          /\ completed' = FALSE

\* lines 74-76: get_object, MediaPlayer(dbus_obj), active_players[player.name]
Register(d, name) == Put(d, PlayerName(MediaPlayer(name)), MediaPlayer(name))

ReindexRegister ==
    /\ pc = "loop"
    /\ todo # <<>>
    /\ IF NameReadable(MediaPlayer(Head(todo)))
       THEN /\ active_players' = Register(active_players, Head(todo))
            /\ pc' = "log"
            /\ UNCHANGED <<raised, completed>>
       ELSE /\ Propagate(inInit, "DBusException")
            /\ UNCHANGED active_players
    /\ UNCHANGED <<bus, changes, inInit, subscribed, pending, todo, listed, before,
                   actions, last,
                   offered>>

\* line 77: the debug line reads player.name from the bus once more
ReindexLog ==
    /\ pc = "log"
    /\ IF NameReadable(MediaPlayer(Head(todo)))
       THEN /\ todo' = Tail(todo)
            /\ pc' = "loop"
            /\ UNCHANGED <<raised, completed>>
       ELSE /\ Propagate(inInit, "DBusException")
            /\ UNCHANGED todo
    /\ UNCHANGED <<bus, changes, inInit, subscribed, pending, active_players,
                   listed, before, actions, last,
                   offered>>

\* the loop of line 71 is exhausted: reindex() returns
ReindexDone ==
    /\ pc = "loop"
    /\ todo = <<>>
    /\ completed' = TRUE
    /\ pc' = IF inInit THEN "monitor" ELSE "idle"
    /\ UNCHANGED <<bus, changes, inInit, subscribed, pending, active_players, todo,
                   listed, before, raised, actions, last,
                   offered>>

\* line 88 / lines 54-55: the module-level registry is constructed
Construct ==
    /\ pc = "new"
    /\ inInit' = TRUE
    /\ last' = [op |-> "__init__"]
    /\ ReindexBegin(TRUE)
    /\ UNCHANGED <<bus, changes, subscribed, pending, actions,
                   offered>>

\* lines 56, 58-60
SetupMonitor ==
    /\ pc = "monitor"
    /\ subscribed' = TRUE
    /\ inInit' = FALSE
    /\ pc' = "idle"
    /\ UNCHANGED <<bus, changes, pending, active_players, todo, listed, before,
                   completed, raised, actions, last,
                   offered>>

\* the test of line 63 without the prefix
WantsRescanAnyName(args) == Len(args) > 0

\* line 63
WantsRescan(args) == Len(args) > 0 /\ StartsWithMpris(args[1])

\* lines 62-64: the main loop hands the next queued signal to the handler
SignalUpdate ==
    /\ pc = "idle"
    /\ pending # <<>>
    /\ pending' = Tail(pending)
    /\ last' = [op |-> "_signal_update", args |-> Head(pending)]
    /\ IF WantsRescan(Head(pending))
       THEN ReindexBegin(FALSE)
       ELSE /\ raised' = "none"
            /\ UNCHANGED <<pc, active_players, todo, listed, before, completed>>
    /\ UNCHANGED <<bus, changes, inInit, subscribed, actions,
                   offered>>

---------------------------------------------------------------------------
(* media_players.py: the action generator, the action and the command leaves *)

\* MediaPlayerCommandsSource.get_items, lines 251-258
CommandLeaves == {"PlayPause", "Play", "Stop", "Pause", "Next", "Previous", "Quit"}

\* a leaf of the host that is no MediaPlayerCommandLeaf
OtherLeaves == {"TextLeaf"}

\* MediaPlayersRegistry.players, lines 79-82: the keys of the table
players == DOMAIN active_players

\* MediaPlayersRegistry.get_player, lines 84-85
KeyMissing(name) == name \notin DOMAIN active_players
get_player(name) == active_players[name]

\* MediaPlayerAction.__init__, lines 99-102
MediaPlayerAction(name) == [name |-> name, player |-> get_player(name)]

\* a set of keys in the order the dict iterates over them
RECURSIVE KeyList(_)
KeyList(S) ==
    IF S = {} THEN <<>>
    ELSE LET k == CHOOSE x \in S : TRUE IN <<k>> \o KeyList(S \ {k})

\* line 93 without the isinstance test
ActionNamesAnyLeaf(leaf) == KeyList(players)

\* the names the list comprehension of line 94 builds an action for
ActionNames(leaf) == IF leaf \in CommandLeaves THEN KeyList(players) ELSE <<>>

\* MediaPlayersGenerator.get_actions_for_leaf, lines 92-95
GetActionsForLeaf(leaf) ==
    /\ pc = "idle"
    /\ last' = [op |-> "get_actions_for_leaf", leaf |-> leaf]
    /\ IF \E i \in DOMAIN ActionNames(leaf) : KeyMissing(ActionNames(leaf)[i])
       THEN /\ raised' = "KeyError"
            /\ UNCHANGED actions
       ELSE /\ raised' = "none"
            /\ actions' = [i \in DOMAIN ActionNames(leaf) |->
                              MediaPlayerAction(ActionNames(leaf)[i])]
    /\ UNCHANGED <<bus, changes, pc, inInit, subscribed, pending, active_players,
                   todo, listed, before, completed,
                   offered>>

\* Quit sent to the Player interface like the other six commands
CommandInterfacePlayerOnly(leaf) == "org.mpris.MediaPlayer2.Player"

\* do_command of the seven leaves, lines 133-219
CommandInterface(leaf) ==
    IF leaf = "Quit" THEN "org.mpris.MediaPlayer2" ELSE "org.mpris.MediaPlayer2.Player"

do_command(leaf, player) ==
    [to |-> player.dbus_obj, iface |-> CommandInterface(leaf), method |-> leaf,
     args |-> <<>>]

\* the player looked up in the registry when the action is activated
ActionTargetByName(action) ==
    IF KeyMissing(action.name) THEN action.player ELSE get_player(action.name)

\* the player an action acts on, line 107: the one stored by __init__
ActionTarget(action) == action.player

\* the remote calls of MediaPlayerAction.activate, lines 105-107: the debug
\* line reads the player's name from the bus, then the leaf's command is sent
ActivateCalls(action, leaf) ==
    IF NameReadable(ActionTarget(action))
    THEN <<PropertiesGet(ActionTarget(action)), do_command(leaf, ActionTarget(action))>>
    ELSE <<PropertiesGet(ActionTarget(action))>>

Activate(action, leaf) ==
    /\ pc = "idle"
    /\ last' = [op |-> "activate", action |-> action, leaf |-> leaf,
                calls |-> ActivateCalls(action, leaf)]
    /\ raised' = IF NameReadable(ActionTarget(action)) THEN "none" ELSE "DBusException"
    /\ UNCHANGED <<bus, changes, pc, inInit, subscribed, pending, active_players,
                   todo, listed, before, completed, actions,
                   offered>>

---------------------------------------------------------------------------
(* The session bus *)

NoOp == [op |-> None]

Owner == ":1.7"

\* the arguments of NameOwnerChanged: name, old owner, new owner
Appeared(name) == <<name, "", Owner>>
Vanished(name) == <<name, Owner, "">>

\* the bus delivers the signal to the plugin iff the handler is connected
Deliver(args) == IF subscribed THEN Append(pending, args) ELSE pending

NameAppears(name) ==
    /\ changes < MaxChanges
    /\ name \notin bus
    /\ bus' = bus \cup {name}
    /\ pending' = Deliver(Appeared(name))
    /\ changes' = changes + 1
    /\ last' = NoOp
    /\ UNCHANGED <<pc, inInit, subscribed, active_players, todo, listed, before,
                   completed, raised, actions,
                   offered>>

NameVanishes(name) ==
    /\ changes < MaxChanges
    /\ name \in bus
    /\ bus' = bus \ {name}
    /\ pending' = Deliver(Vanished(name))
    /\ changes' = changes + 1
    /\ last' = NoOp
    /\ UNCHANGED <<pc, inInit, subscribed, active_players, todo, listed, before,
                   completed, raised, actions,
                   offered>>

\* a signal that reaches the handler without arguments
BareSignal ==
    /\ changes < MaxChanges
    /\ subscribed
    /\ pending' = Append(pending, <<>>)
    /\ changes' = changes + 1
    /\ last' = NoOp
    /\ UNCHANGED <<bus, pc, inInit, subscribed, active_players, todo, listed,
                   before, completed, raised, actions,
                   offered>>

---------------------------------------------------------------------------
(* The media-player plugin in its environment *)

Init ==
    /\ bus \in SUBSET MediaBusNames
    /\ changes = 0
    /\ pc = "new"
    /\ inInit = FALSE
    /\ subscribed = FALSE
    /\ pending = <<>>
    /\ active_players = EmptyDict
    /\ todo = <<>>
    /\ listed = {}
    /\ before = EmptyDict
    /\ completed = FALSE
    /\ raised = "none"
    /\ actions = <<>>
    /\ offered = {}
    /\ last = NoOp

Next ==
    \/ Construct
    \/ ReindexRegister
    \/ ReindexLog
    \/ ReindexDone
    \/ SetupMonitor
    \/ SignalUpdate
    \/ \E leaf \in CommandLeaves \cup OtherLeaves : GetActionsForLeaf(leaf)
    \/ \E i \in DOMAIN actions : \E leaf \in CommandLeaves : Activate(actions[i], leaf)
    \/ \E name \in MediaBusNames : NameAppears(name)
    \/ \E name \in MediaBusNames : NameVanishes(name)
    \/ BareSignal

Spec == Init /\ [][Next]_vars

---------------------------------------------------------------------------
(* hamster.py and hotot.py: the connection helpers *)

\* Python's None, as a value comparable with a proxy
PyNone == [none |-> TRUE]

\* get_hamster, hamster.py lines 18-25: the proxy, or None after the
\* DBusException of an unreachable name has been logged
get_hamster ==
    IF HAMSTER \in bus THEN [bus_name |-> HAMSTER, iface |-> "org.gnome.Hamster"]
    ELSE PyNone

\* get_hotot, hotot.py lines 18-25
get_hotot ==
    IF HOTOT \in bus THEN [bus_name |-> HOTOT, iface |-> "org.hotot.service"]
    ELSE PyNone

\* proxy.method(args): a remote call, or the AttributeError of None.method
CallsOn(proxy, method, args) ==
    IF proxy = PyNone THEN <<>>
    ELSE <<[to |-> proxy.bus_name, iface |-> proxy.iface, method |-> method,
            args |-> args]>>

RaisedOn(proxy) == IF proxy = PyNone THEN "AttributeError" ELSE "none"

\* what a handler leaves behind that connected once and called one method
CallOnce(op, input, proxy, method, args) ==
    /\ last' = [op |-> op, input |-> input, attempts |-> 1,
                logged |-> IF proxy = PyNone THEN 1 ELSE 0,
                calls |-> CallsOn(proxy, method, args)]
    /\ raised' = RaisedOn(proxy)

appFrame == <<pc, inInit, subscribed, pending, active_players, todo, listed, before,
              completed, actions, bus, changes>>

---------------------------------------------------------------------------
(* hamster.py *)

\* line 14
HAMSTER_APPNAMES == {"hamster-indicator", "hamster-time-tracker"}

\* ids of the application leaves the host may offer
ItemIds == HAMSTER_APPNAMES \cup {"firefox"}

\* time.time() - time.timezone, lines 61 and 82
LocalNow == "time.time() - time.timezone"

\* valid_for_item with 'or' in place of 'and'
ToggleValidEither(id) == id \in HAMSTER_APPNAMES \/ get_hamster # PyNone

\* Toggle.valid_for_item, lines 39-40: 'and' connects only for a Hamster item
ToggleValid(id) == id \in HAMSTER_APPNAMES /\ get_hamster # PyNone
ToggleAttempts(id) == IF id \in HAMSTER_APPNAMES THEN 1 ELSE 0

Offer(name, valid) == IF valid THEN offered \cup {name} ELSE offered \ {name}

ToggleValidForItem(id) ==
    /\ last' = [op |-> "Toggle.valid_for_item", input |-> id,
                attempts |-> ToggleAttempts(id),
                logged |-> IF HAMSTER \in bus THEN 0 ELSE ToggleAttempts(id),
                calls |-> <<>>, ret |-> ToggleValid(id)]
    /\ raised' = "none"
    /\ offered' = Offer("Toggle", ToggleValid(id))
    /\ UNCHANGED appFrame

\* Toggle.activate, lines 42-43
ToggleActivate ==
    /\ CallOnce("Toggle.activate", "hamster-indicator", get_hamster, "Toggle", <<>>)
    /\ UNCHANGED <<appFrame, offered>>

Activities == {<<"work">>, <<"lunch", "@", "breaks">>}

\* StartActivity.activate, lines 60-61
StartActivityActivate(activity) ==
    /\ CallOnce("StartActivity.activate", activity, get_hamster, "AddFact",
                <<activity, LocalNow, 0, FALSE>>)
    /\ UNCHANGED <<appFrame, offered>>

\* StopTrackingLeaf.run, lines 81-82
StopTrackingRun ==
    /\ CallOnce("StopTrackingLeaf.run", PyNone, get_hamster, "StopTracking",
                <<LocalNow>>)
    /\ UNCHANGED <<appFrame, offered>>

\* what GetActivities('') may answer: (name, category) pairs
ActivityReplies ==
    {<<>>, << <<"work", "">> >>, << <<"lunch", "breaks">>, <<"work", "">> >>}

\* lines 119-122: the leaf of one answer
ActivityLeaf(act) == IF act[2] # "" THEN <<act[1], "@", act[2]>> ELSE <<act[1]>>

\* ActivitiesSource.get_items, lines 117-122
ActivitiesGetItems(reply) ==
    /\ last' = [op |-> "ActivitiesSource.get_items", input |-> PyNone,
                attempts |-> 1,
                logged |-> IF get_hamster = PyNone THEN 1 ELSE 0,
                calls |-> CallsOn(get_hamster, "GetActivities", <<"">>),
                ret |-> IF get_hamster = PyNone THEN <<>>
                        ELSE [i \in DOMAIN reply |-> ActivityLeaf(reply[i])]]
    /\ raised' = RaisedOn(get_hamster)
    /\ UNCHANGED <<appFrame, offered>>

---------------------------------------------------------------------------
(* hotot.py *)

Quote == "\""
Backslash == "\\"
Alphabet == {"a", Quote, Backslash}

Texts == UNION {[1..n -> Alphabet] : n \in 0..MaxLen}

\* str.replace(old, new) for a one-character old: left to right, every
\* occurrence
RECURSIVE Replace(_, _, _)
Replace(text, old, new) ==
    IF text = <<>> THEN <<>>
    ELSE IF Head(text) = old THEN new \o Replace(Tail(text), old, new)
    ELSE <<Head(text)>> \o Replace(Tail(text), old, new)

\* str.replace(old, new, 1): the first occurrence only
RECURSIVE ReplaceFirst(_, _, _)
ReplaceFirst(text, old, new) ==
    IF text = <<>> THEN <<>>
    ELSE IF Head(text) = old THEN new \o Tail(text)
    ELSE <<Head(text)>> \o ReplaceFirst(Tail(text), old, new)

EscapeFirstQuote(text) == ReplaceFirst(text, Quote, <<Backslash, Quote>>)

\* line 34: leaf.object.replace('"', '\\"')
EscapeQuotes(text) == Replace(text, Quote, <<Backslash, Quote>>)

\* SendUpdate.activate, lines 32-36
SendUpdateActivate(text) ==
    /\ CallOnce("SendUpdate.activate", text, get_hotot, "update_status",
                <<EscapeQuotes(text)>>)
    /\ UNCHANGED <<appFrame, offered>>

\* SendUpdate.valid_for_item, lines 47-48
SendUpdateValid == get_hotot # PyNone

SendUpdateValidForItem(text) ==
    /\ last' = [op |-> "SendUpdate.valid_for_item", input |-> text, attempts |-> 1,
                logged |-> IF HOTOT \in bus THEN 0 ELSE 1,
                calls |-> <<>>, ret |-> SendUpdateValid]
    /\ raised' = "none"
    /\ offered' = Offer("SendUpdate", SendUpdateValid)
    /\ UNCHANGED appFrame

\* Show, Hide, Quit: lines 68-90
HototActions == {"Show", "Hide", "Quit"}

\* the method each action's func calls, lines 71, 79, 87
HototMethod(action) ==
    CASE action = "Show" -> "show"
      [] action = "Hide" -> "hide"
      [] action = "Quit" -> "quit"

\* names of the application leaves the host may offer
ItemNames == {"Hotot", "Firefox"}

\* HototAction.valid_for_item, lines 65-66
HototValid(name) == name = "Hotot" /\ get_hotot # PyNone
HototAttempts(name) == IF name = "Hotot" THEN 1 ELSE 0

HototValidForItem(action, name) ==
    /\ last' = [op |-> "HototAction.valid_for_item", input |-> name,
                action |-> action, attempts |-> HototAttempts(name),
                logged |-> IF HOTOT \in bus THEN 0 ELSE HototAttempts(name),
                calls |-> <<>>, ret |-> HototValid(name)]
    /\ raised' = "none"
    /\ offered' = Offer(action, HototValid(name))
    /\ UNCHANGED appFrame

\* HototAction.activate, lines 59-60
HototActivate(action) ==
    /\ CallOnce("HototAction.activate", action, get_hotot, HototMethod(action), <<>>)
    /\ UNCHANGED <<appFrame, offered>>

---------------------------------------------------------------------------
(* The Hamster and Hotot plugins in their environment *)

AppBusNames == {HAMSTER, HOTOT}

AppInit ==
    /\ bus \in SUBSET AppBusNames
    /\ changes = 0
    /\ pc = "host"
    /\ inInit = FALSE
    /\ subscribed = FALSE
    /\ pending = <<>>
    /\ active_players = EmptyDict
    /\ todo = <<>>
    /\ listed = {}
    /\ before = EmptyDict
    /\ completed = FALSE
    /\ raised = "none"
    /\ actions = <<>>
    /\ offered = {}
    /\ last = NoOp

AppNext ==
    \/ \E id \in ItemIds : ToggleValidForItem(id)
    \/ ToggleActivate
    \/ \E activity \in Activities : StartActivityActivate(activity)
    \/ StopTrackingRun
    \/ \E reply \in ActivityReplies : ActivitiesGetItems(reply)
    \/ \E text \in Texts : SendUpdateActivate(text)
    \/ \E text \in {t \in Texts : Len(t) <= 1} : SendUpdateValidForItem(text)
    \/ \E action \in HototActions : \E name \in ItemNames : HototValidForItem(action, name)
    \/ \E action \in HototActions : HototActivate(action)
    \/ \E name \in AppBusNames : NameAppears(name)
    \/ \E name \in AppBusNames : NameVanishes(name)

AppSpec == AppInit /\ [][AppNext]_vars

---------------------------------------------------------------------------
(* Properties of the media-player registry *)

\* the player objects the registry holds
Registered == {active_players[k] : k \in DOMAIN active_players}

\* the bus names the registered players are bound to
RegisteredNames == {p.dbus_obj : p \in Registered}

\* a rescan has returned normally and no later one has started
RescanCompleted == completed /\ pc \in {"monitor", "idle"}

\* C1: after a rescan that ran to completion, every listed bus name with the
\* MPRIS2 prefix has a registry entry whose player is bound to it, and the
\* registry holds no player that was absent from the list.
C1_RegistryListsListedPlayers ==
    RescanCompleted =>
        /\ \A n \in listed :
              n \in {VLC, VLC2, RHYTHMBOX, MPD} =>
                  \E k \in DOMAIN active_players : active_players[k].dbus_obj = n
        /\ \A k \in DOMAIN active_players : active_players[k].dbus_obj \in listed

\* the plugin is idle with its handler connected and no signal left to handle
Quiescent == pc = "idle" /\ subscribed /\ pending = <<>>

\* C2: once every pending NameOwnerChanged signal has been handled, the
\* registry reflects exactly the MPRIS2 players that are on the bus, whenever
\* since the start of the construction they appeared or vanished.
C2_QuiescentRegistryReflectsBus ==
    Quiescent => RegisteredNames = bus \cap {VLC, VLC2, RHYTHMBOX, MPD}

---------------------------------------------------------------------------
(* Properties of the Hamster and Hotot handlers *)

ActivationOps ==
    {"Toggle.activate", "StartActivity.activate", "StopTrackingLeaf.run",
     "ActivitiesSource.get_items", "SendUpdate.activate", "HototAction.activate"}

\* the bus name a handler of the two plugins connects to
TargetOf(op) ==
    IF op \in {"SendUpdate.activate", "HototAction.activate",
               "SendUpdate.valid_for_item", "HototAction.valid_for_item"}
    THEN HOTOT ELSE HAMSTER

\* C3: when the target application cannot be reached, an activation finishes
\* without raising an error, performs no remote operation and has made a
\* single connection attempt.
C3_UnreachableActivationIsSilent ==
    (last.op \in ActivationOps /\ TargetOf(last.op) \notin bus) =>
        /\ raised = "none"
        /\ last.calls = <<>>
        /\ last.attempts = 1

\* C7: valid_for_item says True only for a matching item whose target is
\* reachable at the moment of the check (for SendUpdate: exactly when it is
\* reachable), and a later activate connects on its own.
C7_ValidOnlyWhenReachable ==
    /\ last.op = "Toggle.valid_for_item" =>
          (last.ret =>
              /\ last.input \in {"hamster-indicator", "hamster-time-tracker"}
              /\ <<"org", "gnome", "Hamster">> \in bus
              /\ last.attempts = 1)
    /\ last.op = "HototAction.valid_for_item" =>
          (last.ret =>
              /\ last.input = "Hotot"
              /\ <<"org", "hotot", "service">> \in bus
              /\ last.attempts = 1)
    /\ last.op = "SendUpdate.valid_for_item" =>
          /\ last.ret <=> <<"org", "hotot", "service">> \in bus
          /\ last.attempts = 1
    /\ last.op \in ActivationOps =>
          /\ last.attempts = 1
          /\ (last.calls # <<>>) <=> (TargetOf(last.op) \in bus)

\* an action the host still offers from an earlier check is activated when
\* Hamster has left the bus
C7_Witness ==
    /\ "Toggle" \in offered
    /\ last.op = "Toggle.activate"
    /\ HAMSTER \notin bus
    /\ last.calls = <<>>

\* the number of double quotes among the first i characters of a text
QuotesUpTo(text, i) == Cardinality({j \in 1..i : text[j] = "\""})

\* out is text with a backslash put before every double quote
IsQuoteEscaped(out, text) ==
    /\ Len(out) = Len(text) + QuotesUpTo(text, Len(text))
    /\ \A i \in 1..Len(text) :
          /\ out[i + QuotesUpTo(text, i)] = text[i]
          /\ text[i] = "\"" => out[i + QuotesUpTo(text, i) - 1] = "\\"

\* C8: SendUpdate.activate hands Hotot the text in exactly one update_status
\* call whose argument is the text with every double quote replaced by a
\* backslash and a double quote, every other character kept in place.
C8_UpdateStatusEscapesQuotes ==
    (last.op = "SendUpdate.activate" /\ HOTOT \in bus) =>
        /\ Len(last.calls) = 1
        /\ last.calls[1].to = HOTOT
        /\ last.calls[1].iface = "org.hotot.service"
        /\ last.calls[1].method = "update_status"
        /\ Len(last.calls[1].args) = 1
        /\ IsQuoteEscaped(last.calls[1].args[1], last.input)

\* a text with two quotes and a backslash has been sent
C8_Witness ==
    /\ last.op = "SendUpdate.activate"
    /\ last.input = <<"\"", "\\", "\"">>
    /\ Len(last.calls) = 1
    /\ last.calls[1].args = << <<"\\", "\"", "\\", "\\", "\"">> >>

---------------------------------------------------------------------------
(* Properties of the media-player actions *)

\* the remote method each command leaf stands for
ExpectedCommand(leaf, name) ==
    CASE leaf = "PlayPause" ->
            [to |-> name, iface |-> "org.mpris.MediaPlayer2.Player",
             method |-> "PlayPause", args |-> <<>>]
      [] leaf = "Play" ->
            [to |-> name, iface |-> "org.mpris.MediaPlayer2.Player",
             method |-> "Play", args |-> <<>>]
      [] leaf = "Stop" ->
            [to |-> name, iface |-> "org.mpris.MediaPlayer2.Player",
             method |-> "Stop", args |-> <<>>]
      [] leaf = "Pause" ->
            [to |-> name, iface |-> "org.mpris.MediaPlayer2.Player",
             method |-> "Pause", args |-> <<>>]
      [] leaf = "Next" ->
            [to |-> name, iface |-> "org.mpris.MediaPlayer2.Player",
             method |-> "Next", args |-> <<>>]
      [] leaf = "Previous" ->
            [to |-> name, iface |-> "org.mpris.MediaPlayer2.Player",
             method |-> "Previous", args |-> <<>>]
      [] leaf = "Quit" ->
            [to |-> name, iface |-> "org.mpris.MediaPlayer2",
             method |-> "Quit", args |-> <<>>]

\* C4, as claimed: an activation issues exactly one remote call, the command
\* of the leaf, to the action's player.
C4_ExactlyOneRemoteCall ==
    last.op = "activate" =>
        last.calls = <<ExpectedCommand(last.leaf, last.action.player.dbus_obj)>>

\* the player of the last activation answers a read of its DesktopEntry
TargetAnswers ==
    /\ last.action.player.dbus_obj \in bus
    /\ last.action.player.dbus_obj \in {VLC, VLC2, RHYTHMBOX}

\* C4, amended: an activation first reads the DesktopEntry of its player P
\* through org.freedesktop.DBus.Properties and then, if that read was
\* answered, issues exactly one command call, the method of the leaf on the
\* interface of the leaf, to P; if the read fails no command is issued.  No
\* call goes to another player and the registry is left as it was.
C4_OneCommandAfterNameRead ==
    /\ [](last.op = "activate" =>
            /\ \A i \in DOMAIN last.calls :
                  last.calls[i].to = last.action.player.dbus_obj
            /\ Len(last.calls) >= 1
            /\ last.calls[1] =
                  [to |-> last.action.player.dbus_obj,
                   iface |-> "org.freedesktop.DBus.Properties", method |-> "Get",
                   args |-> <<"org.mpris.MediaPlayer2", "DesktopEntry">>]
            /\ IF TargetAnswers
               THEN /\ Len(last.calls) = 2
                    /\ last.calls[2] =
                          ExpectedCommand(last.leaf, last.action.player.dbus_obj)
               ELSE Len(last.calls) = 1)
    /\ [][last'.op = "activate" => active_players' = active_players]_vars

\* Quit has been sent to a player
C4_Witness ==
    /\ last.op = "activate"
    /\ last.leaf = "Quit"
    /\ Len(last.calls) = 2
    /\ last.calls[2].method = "Quit"

\* the handler takes the signal at the head of the queue
HandlesSignal == pc = "idle" /\ pending # <<>> /\ pending' = Tail(pending)

\* C5: a signal without arguments, or whose first argument lacks the MPRIS2
\* prefix, leaves active_players as it is and starts no rescan.
C5_OtherSignalsLeaveRegistry ==
    [][(/\ HandlesSignal
        /\ \/ Head(pending) = <<>>
           \/ Head(pending)[1] \notin {VLC, VLC2, RHYTHMBOX, MPD})
       => /\ active_players' = active_players
          /\ pc' = "idle"
          /\ UNCHANGED <<todo, listed, before, completed>>]_vars

\* a signal about Hamster has been handled while players were registered
C5_Witness ==
    /\ last.op = "_signal_update"
    /\ last.args # <<>>
    /\ last.args[1] = HAMSTER
    /\ Cardinality(DOMAIN active_players) = 2
    /\ pc = "idle"

\* C6: for a command leaf get_actions_for_leaf returns exactly one action per
\* name in the registry, bound to the player registered under that name, and
\* never fails with a missing key; for another leaf it returns the empty list.
C6_OneActionPerRegisteredName ==
    last.op = "get_actions_for_leaf" =>
        /\ raised # "KeyError"
        /\ IF last.leaf \in {"PlayPause", "Play", "Stop", "Pause", "Next",
                             "Previous", "Quit"}
           THEN /\ Len(actions) = Cardinality(DOMAIN active_players)
                /\ \A k \in DOMAIN active_players :
                      \E i \in DOMAIN actions :
                          /\ actions[i].name = k
                          /\ actions[i].player = active_players[k]
           ELSE actions = <<>>

\* two players are registered and a command leaf got two actions
C6_Witness ==
    /\ last.op = "get_actions_for_leaf"
    /\ last.leaf \in CommandLeaves
    /\ Len(actions) = 2
    /\ Cardinality(DOMAIN active_players) = 2

\* the start of a rescan: by the constructor, or by the signal handler
RescanStart ==
    \/ (pc = "new" /\ pc' # "new")
    \/ (HandlesSignal /\ (pc' = "loop" \/ raised' = "DBusException"))

\* a step of a rescan: its start, or a step of its loop
RescanStep == RescanStart \/ pc \in {"loop", "log"}

\* C9: a rescan leaves the actions built earlier, and the players they are
\* bound to, as they were, and an activation sends to the player its action
\* was built with, also when the registry no longer holds that player.
C9_ActionKeepsItsPlayer ==
    /\ [][RescanStep => actions' = actions]_vars
    /\ [](last.op = "activate" =>
            /\ \E i \in DOMAIN actions : actions[i] = last.action
            /\ \A i \in DOMAIN last.calls :
                  last.calls[i].to = last.action.player.dbus_obj)

\* a command has gone to a player that the registry holds no more
C9_Witness ==
    /\ last.op = "activate"
    /\ last.action.player \notin Registered
    /\ Len(last.calls) = 2
    /\ last.calls[2].to = last.action.player.dbus_obj
    /\ last.action.name \in DOMAIN active_players

\* the names the running or the last rescan has registered a player for
Visited ==
    (listed \ Range(todo)) \cup
        (IF todo # <<>> /\ pc # "loop" THEN {Head(todo)} ELSE {})

\* C10: a rescan empties the registry before it asks the bus; a query that
\* fails ends it with the exception, and the registry keeps what the rescan
\* had registered up to there, whatever it held before; only a rescan changes
\* the registry afterwards.
C10_FailedRescanLeavesPartialRegistry ==
    /\ [][RescanStart => DOMAIN active_players' = {} /\ before' = active_players]_vars
    /\ [][(pc \in {"loop", "log"} /\ pc' \in {"idle", "dead"} /\ ~completed')
          => /\ raised' = "DBusException"
             /\ active_players' = active_players]_vars
    /\ [](RegisteredNames \subseteq Visited)
    /\ [][active_players' # active_players => RescanStep]_vars

\* a rescan started by a signal failed after it had registered one of the
\* two players the registry held before
C10_Witness ==
    /\ pc = "idle"
    /\ subscribed
    /\ ~completed
    /\ raised = "DBusException"
    /\ Cardinality(DOMAIN before) = 2
    /\ Cardinality(DOMAIN active_players) = 1

===========================================================================
